---------------------------- MODULE Spec2Model ----------------------------
(***************************************************************************)
(* Model of the finance dashboard of Streamlit_Projects:                   *)
(*   finance_analysis/_App.py                     (main page)              *)
(*   finance_analysis/pages/1_Correlation_Analysis.py                      *)
(*   finance_analysis/pages/2_Risk_Metrics.py                              *)
(*                                                                         *)
(* A Streamlit page is a script that is run top to bottom for one set of   *)
(* widget values; it ends by running off its end ("done"), by st.stop()    *)
(* ("stopped") or by an exception nobody catches ("crashed").  Each block  *)
(* of a script is one action, pc is the position in the script.            *)
(*                                                                         *)
(* float64 values are modelled by exact rationals <<n, d>> in lowest terms *)
(* (d > 0), extended with the IEEE special values +inf = <<1,0>>,          *)
(* -inf = <<-1,0>> and NaN = <<0,0>>.  Rounding and signed zeros are not   *)
(* modelled.  A value a * sqrt(b) that is not rational is kept as the pair *)
(* of its sign and its square.                                             *)
(***************************************************************************)
EXTENDS Integers, Sequences, FiniteSets, TLC

VARIABLES
    page,                  \* which script is running
    pc,                    \* position in the script
    start_date, end_date,  \* st.sidebar.date_input values (day numbers)
    selected_assets,       \* st.sidebar.multiselect value (set of names)
    correlation_method,    \* st.sidebar.selectbox value
    risk_free_rate_input,  \* st.sidebar.number_input value (percent)
    data_df,               \* the fetched table
    metrics,               \* main page: the values of the metric cards
    results,               \* risk page: the list of result rows
    results_df,            \* risk page: the sorted table
    corr_matrix,           \* correlation page: the matrix
    column,                \* risk page: position of the loop over the columns
    error                  \* the message shown or the exception raised

\* the widgets' values, which a script only reads
widgets == <<page, start_date, end_date, selected_assets, correlation_method,
             risk_free_rate_input>>

vars == <<widgets, pc, data_df, metrics, results, results_df, corr_matrix,
          column, error>>

---------------------------------------------------------------------------
(* Bounds of the model *)

\* longest price series the main page fetches
MaxLen == 4
\* most rows of the table the risk page fetches
MaxRows == 3
\* most rows of the table the correlation page fetches
MaxCorrRows == 2

\* prices of the main page; 0 is a price the provider can deliver
MainPrices == {0, 50, 100}
\* prices of the risk page; 0 is a price the provider can deliver
RiskPrices == {0, 1, 2}
\* prices of the correlation page
CorrPrices == {1, 2}
\* the values of the risk-free rate input (percent) the model tries
RiskFreeInputs == {4}
\* the day numbers the date inputs range over; today is the largest
Days == {0, 1}
today == CHOOSE d \in Days : \A e \in Days : e <= d

---------------------------------------------------------------------------
(* TICKERS *)

TICKERS ==
    "S&P 500 (Index)"   :> "^GSPC"    @@
    "NASDAQ (Index)"    :> "^IXIC"    @@
    "Gold (Commodity)"  :> "GC=F"     @@
    "Crude Oil (WTI)"   :> "CL=F"     @@
    "Euro/USD (FX)"     :> "EURUSD=X" @@
    "Microsoft (Stock)" :> "MSFT"     @@
    "Tesla (Stock)"     :> "TSLA"

\* position of an asset name in the order of Python strings
NameRank(name) ==
    CASE name = "Crude Oil (WTI)"   -> 1
      [] name = "Euro/USD (FX)"     -> 2
      [] name = "Gold (Commodity)"  -> 3
      [] name = "Microsoft (Stock)" -> 4
      [] name = "NASDAQ (Index)"    -> 5
      [] name = "S&P 500 (Index)"   -> 6
      [] name = "Tesla (Stock)"     -> 7

\* position of a ticker symbol in the order of Python strings
SymbolRank(symbol) ==
    CASE symbol = "CL=F"     -> 1
      [] symbol = "EURUSD=X" -> 2
      [] symbol = "GC=F"     -> 3
      [] symbol = "MSFT"     -> 4
      [] symbol = "TSLA"     -> 5
      [] symbol = "^GSPC"    -> 6
      [] symbol = "^IXIC"    -> 7

\* the assets the model lets the risk page and the correlation page select
RiskAssets == {"NASDAQ (Index)", "S&P 500 (Index)"}
CorrAssets == {"Gold (Commodity)", "Microsoft (Stock)", "Tesla (Stock)"}

---------------------------------------------------------------------------
(* float64 arithmetic *)

Abs(x) == IF x < 0 THEN -x ELSE x
Sgn(x) == IF x < 0 THEN -1 ELSE IF x > 0 THEN 1 ELSE 0

RECURSIVE GCD(_, _)
GCD(a, b) == IF b = 0 THEN a ELSE GCD(b, a % b)

\* n/d in lowest terms, d # 0
Norm(n, d) ==
    LET g == GCD(Abs(n), Abs(d))
        s == IF d < 0 THEN -1 ELSE 1
    IN  << (s * n) \div g, (s * d) \div g >>

NaN    == <<0, 0>>
PosInf == <<1, 0>>
NegInf == <<-1, 0>>
Num(n) == <<n, 1>>

IsNaN(x)    == x = NaN
IsInf(x)    == x[2] = 0 /\ x[1] # 0
IsFinite(x) == x[2] > 0

FNeg(x) == << -x[1], x[2] >>

FAdd(x, y) ==
    IF IsNaN(x) \/ IsNaN(y) THEN NaN
    ELSE IF IsInf(x) /\ IsInf(y) THEN (IF x = y THEN x ELSE NaN)
    ELSE IF IsInf(x) THEN x
    ELSE IF IsInf(y) THEN y
    ELSE Norm(x[1] * y[2] + y[1] * x[2], x[2] * y[2])

FSub(x, y) == FAdd(x, FNeg(y))

FMul(x, y) ==
    IF IsNaN(x) \/ IsNaN(y) THEN NaN
    ELSE IF IsInf(x) \/ IsInf(y)
         THEN (IF x[1] = 0 \/ y[1] = 0 THEN NaN ELSE << Sgn(x[1]) * Sgn(y[1]), 0 >>)
    ELSE Norm(x[1] * y[1], x[2] * y[2])

\* numpy's float64 division: x/0 is inf or NaN, never an exception
FDiv(x, y) ==
    IF IsNaN(x) \/ IsNaN(y) THEN NaN
    ELSE IF IsInf(y) THEN (IF IsInf(x) THEN NaN ELSE Num(0))
    ELSE IF y[1] = 0 THEN (IF x[1] = 0 THEN NaN ELSE << Sgn(x[1]), 0 >>)
    ELSE IF IsInf(x) THEN << Sgn(x[1]) * Sgn(y[1]), 0 >>
    ELSE Norm(x[1] * y[2], x[2] * y[1])

\* a/b < c/d for a, c >= 0 and b, d > 0, by the continued fractions
RECURSIVE PosLess(_, _, _, _)
PosLess(a, b, c, d) ==
    IF a \div b # c \div d THEN a \div b < c \div d
    ELSE IF c % d = 0 THEN FALSE
    ELSE IF a % b = 0 THEN TRUE
    ELSE PosLess(d, c % d, b, a % b)

\* x < y on float64: false when either is NaN
FLt(x, y) ==
    IF IsNaN(x) \/ IsNaN(y) \/ x = y THEN FALSE
    ELSE IF x = NegInf \/ y = PosInf THEN TRUE
    ELSE IF x = PosInf \/ y = NegInf THEN FALSE
    ELSE IF x[1] < 0 /\ y[1] >= 0 THEN TRUE
    ELSE IF x[1] >= 0 /\ y[1] < 0 THEN FALSE
    ELSE IF x[1] >= 0 THEN PosLess(x[1], x[2], y[1], y[2])
    ELSE PosLess(-y[1], y[2], -x[1], x[2])

\* x == y on float64: NaN equals nothing
FEq(x, y) == ~IsNaN(x) /\ ~IsNaN(y) /\ x = y
FLe(x, y) == FLt(x, y) \/ FEq(x, y)

---------------------------------------------------------------------------
(* pandas Series operations; a Series is a sequence of float64 *)

\* Series.pct_change(): x[i]/x[i-1] - 1, the first entry is NaN
PctChange(s) ==
    [i \in 1..Len(s) |->
        IF i = 1 THEN NaN ELSE FSub(FDiv(s[i], s[i - 1]), Num(1))]

\* Series.dropna(): the entries that are not NaN (inf is kept)
DropNa(s) == SelectSeq(s, LAMBDA x : ~IsNaN(x))

\* 1 + series
AddOne(s) == [i \in 1..Len(s) |-> FAdd(Num(1), s[i])]

\* Series.cumprod() of a series without NaN
RECURSIVE CumProd(_)
CumProd(s) ==
    IF Len(s) = 0 THEN << >>
    ELSE LET init == CumProd(SubSeq(s, 1, Len(s) - 1))
         IN  Append(init,
                    IF Len(init) = 0 THEN s[Len(s)]
                    ELSE FMul(init[Len(init)], s[Len(s)]))

\* the larger of two float64 where NaN is skipped
NanMax(x, y) == IF IsNaN(x) THEN y ELSE IF IsNaN(y) THEN x
                ELSE IF FLt(x, y) THEN y ELSE x
NanMin(x, y) == IF IsNaN(x) THEN y ELSE IF IsNaN(y) THEN x
                ELSE IF FLt(y, x) THEN y ELSE x

\* Series.expanding(min_periods=1).max(): running maximum, NaN skipped
RECURSIVE ExpandingMax(_)
ExpandingMax(s) ==
    IF Len(s) = 0 THEN << >>
    ELSE LET init == ExpandingMax(SubSeq(s, 1, Len(s) - 1))
         IN  Append(init,
                    IF Len(init) = 0 THEN s[Len(s)]
                    ELSE NanMax(init[Len(init)], s[Len(s)]))

\* Series.min(): NaN skipped, NaN for an empty series
RECURSIVE SeriesMin(_)
SeriesMin(s) ==
    IF Len(s) = 0 THEN NaN
    ELSE NanMin(SeriesMin(SubSeq(s, 1, Len(s) - 1)), s[Len(s)])

RECURSIVE SeriesSum(_)
SeriesSum(s) ==
    IF Len(s) = 0 THEN Num(0)
    ELSE FAdd(SeriesSum(SubSeq(s, 1, Len(s) - 1)), s[Len(s)])

\* Series.mean() of a series without NaN: NaN for an empty series
SeriesMean(s) ==
    IF Len(s) = 0 THEN NaN ELSE FDiv(SeriesSum(s), Num(Len(s)))

\* the variance with denominator n - ddof; NaN when n - ddof <= 0
SeriesVar(s, ddof) ==
    IF Len(s) - ddof <= 0 THEN NaN
    ELSE LET m   == SeriesMean(s)
             dev == [i \in 1..Len(s) |->
                        FMul(FSub(s[i], m), FSub(s[i], m))]
         IN  FDiv(SeriesSum(dev), Num(Len(s) - ddof))

(* A value a * sqrt(b), b >= 0, is the record [a, b] of its factor and its *)
(* radicand.  Std is sqrt(variance).                                       *)
Root(a, b) == [fac |-> a, rad |-> b]

\* Series.std(): the sample standard deviation, ddof = 1
SeriesStd(s) == Root(Num(1), SeriesVar(s, 1))

\* np.std(series): Series.std(ddof=0), the population standard deviation
NpStd(s) == Root(Num(1), SeriesVar(s, 0))

\* root * sqrt(k)
RootTimesSqrt(r, k) == Root(r.fac, FMul(r.rad, Num(k)))
\* root * k
RootTimes(r, k) == Root(FMul(r.fac, Num(k)), r.rad)

RootIsNaN(r)    == IsNaN(r.fac) \/ IsNaN(r.rad)
\* root == 0 on float64
RootIsZero(r)   == ~RootIsNaN(r) /\ (r.fac = Num(0) \/ r.rad = Num(0))
RootIsFinite(r) == IsFinite(r.fac) /\ IsFinite(r.rad)
\* the square of a root, (a * sqrt(b)) ** 2
RootSq(r)       == FMul(FMul(r.fac, r.fac), r.rad)

---------------------------------------------------------------------------
(* The metric functions of _App.py and pages/2_Risk_Metrics.py *)

\* calculate_max_drawdown(series), the same code on both pages
calculate_max_drawdown(series) ==
    LET cumulative_returns == CumProd(AddOne(DropNa(PctChange(series))))
        peak     == ExpandingMax(cumulative_returns)
        drawdown == [i \in 1..Len(cumulative_returns) |->
                        FSub(FDiv(cumulative_returns[i], peak[i]), Num(1))]
    IN  FMul(SeriesMin(drawdown), Num(100))

(* A Sharpe ratio is a float64 that need not be rational: excess / sqrt(v). *)
(* It is kept as [nan, sgn, sq]: NaN, or the sign and the square of the     *)
(* value.                                                                   *)
SharpeNaN == [nan |-> TRUE, sgn |-> 0, sq |-> Num(0)]
SharpeZero == [nan |-> FALSE, sgn |-> 0, sq |-> Num(0)]

\* x / root on float64 (root.fac is 1 here), as sign and square
DivByRoot(x, root) ==
    IF IsNaN(x) \/ RootIsNaN(root) THEN SharpeNaN
    ELSE LET q == FDiv(FMul(x, x), FMul(FMul(root.fac, root.fac), root.rad))
         IN  IF IsNaN(q) THEN SharpeNaN
             ELSE [nan |-> FALSE, sgn |-> Sgn(x[1]) * Sgn(root.fac[1]), sq |-> q]

\* lines 53 and 55 of calculate_sharpe_ratio: the volatility it divides by,
\* daily_returns.std() * np.sqrt(252)
sharpe_annualized_volatility(series) ==
    RootTimesSqrt(SeriesStd(DropNa(PctChange(series))), 252)

\* calculate_sharpe_ratio(series, risk_free_rate)
calculate_sharpe_ratio(series, risk_free_rate) ==
    LET daily_returns == DropNa(PctChange(series))
        annualized_return == FMul(SeriesMean(daily_returns), Num(252))
        annualized_volatility == sharpe_annualized_volatility(series)
    IN  IF RootIsZero(annualized_volatility) THEN SharpeZero
        ELSE DivByRoot(FSub(annualized_return, risk_free_rate),
                       annualized_volatility)

\* x < y for two Sharpe ratios (false when either is NaN)
SharpeLt(x, y) ==
    IF x.nan \/ y.nan THEN FALSE
    ELSE IF x.sgn # y.sgn THEN x.sgn < y.sgn
    ELSE IF x.sgn > 0 THEN FLt(x.sq, y.sq)
    ELSE IF x.sgn < 0 THEN FLt(y.sq, x.sq)
    ELSE FALSE

\* x == y for two Sharpe ratios (false when either is NaN)
SharpeEq(x, y) == ~x.nan /\ ~y.nan /\ x.sgn = y.sgn /\ x.sq = y.sq

---------------------------------------------------------------------------
(* _App.py, the main page *)

\* the price series of at most n points over the prices P
SeriesOver(P, n) == UNION {[1..k -> {Num(p) : p \in P}] : k \in 0..n}

\* a series of 10% growth in each period, which the provider can deliver
\* beside the series over MainPrices
GrowthSeries == <<Num(100), Num(110), Num(121)>>

\* the price series the main page can fetch
MainSeries == SeriesOver(MainPrices, MaxLen) \cup {GrowthSeries}

NoFrame   == << >>
NoMetrics == [shown |-> FALSE]
NoMatrix  == [shown |-> FALSE]

\* lines 63-65: the date check of the main page
MainCheckDates ==
    /\ page = "main" /\ pc = "start"
    /\ IF start_date >= end_date
       THEN /\ pc' = "stopped"
            /\ error' = "Start date must be before the end date."
       ELSE /\ pc' = "fetch"
            /\ error' = error
    /\ UNCHANGED <<widgets, data_df, metrics, results, results_df,
                   corr_matrix, column>>

\* lines 82-86: get_historical_data and the empty check; the table is the
\* series of its price column (line 89-90)
MainFetch ==
    /\ page = "main" /\ pc = "fetch"
    /\ \E close_prices \in MainSeries :
          /\ data_df' = close_prices
          /\ IF Len(close_prices) = 0
             THEN /\ pc' = "stopped"
                  /\ error' = "Could not fetch data for the selected asset in the specified range."
             ELSE /\ pc' = "metrics"
                  /\ error' = error
    /\ UNCHANGED <<widgets, metrics, results, results_df, corr_matrix,
                   column>>

\* the total return as a fraction, without the factor 100
total_return_main_fraction(close_prices) ==
    FSub(FDiv(close_prices[Len(close_prices)], close_prices[1]), Num(1))

\* line 100: a Python float division, which raises on a zero divisor
total_return_main(close_prices) ==
    FMul(FSub(FDiv(close_prices[Len(close_prices)], close_prices[1]), Num(1)),
         Num(100))

\* lines 104-105: np.std(daily_change) * np.sqrt(252) * 100
annualized_volatility_main(close_prices) ==
    RootTimes(RootTimesSqrt(NpStd(DropNa(PctChange(close_prices))), 252), 100)

\* lines 97-132: the metric cards
MainMetrics ==
    /\ page = "main" /\ pc = "metrics"
    /\ IF data_df[1] = Num(0)
       THEN /\ pc' = "crashed"
            /\ error' = "ZeroDivisionError"
            /\ metrics' = metrics
       ELSE /\ pc' = "done"
            /\ error' = error
            /\ metrics' =
                 [shown |-> TRUE,
                  total_return |-> total_return_main(data_df),
                  annualized_volatility |-> annualized_volatility_main(data_df),
                  max_dd |-> calculate_max_drawdown(data_df),
                  final_price |-> data_df[Len(data_df)]]
    /\ UNCHANGED <<widgets, data_df, results, results_df, corr_matrix,
                   column>>

MainNext == MainCheckDates \/ MainFetch \/ MainMetrics

\* the widgets' values when a script starts; date_input has max_value=today
InitPage(p) ==
    /\ page = p
    /\ pc = "start"
    /\ start_date \in {d \in Days : d <= today}
    /\ end_date \in {d \in Days : d <= today}
    /\ data_df = NoFrame
    /\ metrics = NoMetrics
    /\ results = << >>
    /\ results_df = << >>
    /\ corr_matrix = NoMatrix
    /\ column = 0
    /\ error = ""

MainInit ==
    /\ InitPage("main")
    /\ selected_assets = {}
    /\ correlation_method = "pearson"
    /\ risk_free_rate_input = 4

SpecMain == MainInit /\ [][MainNext]_vars

---------------------------------------------------------------------------
(* Tables (pandas DataFrame) of the risk page and the correlation page:    *)
(* columns is the sequence of the column names, data[k] the column of      *)
(* columns[k]; all columns have the same length, the number of rows.       *)

EmptyFrame == [columns |-> << >>, data |-> << >>]

NRows(df) == IF Len(df.columns) = 0 THEN 0 ELSE Len(df.data[1])
\* DataFrame.empty: no column or no row
IsEmpty(df) == Len(df.columns) = 0 \/ NRows(df) = 0

\* the cells of a fetched table: a price, or NaN where the asset has no value
Cells(P) == {NaN} \cup {Num(p) : p \in P}

\* the tables with the columns cols, 1..maxrows rows and prices in P
FramesOver(cols, maxrows, P) ==
    {[columns |-> cols, data |-> d] :
        d \in UNION {[1..Len(cols) -> [1..n -> Cells(P)]] : n \in 1..maxrows}}

\* the orders a set can come in
Perms(S) ==
    {q \in [1..Cardinality(S) -> S] : \A i, j \in DOMAIN q : i # j => q[i] # q[j]}

\* df[name]
Column(df, name) ==
    df.data[CHOOSE k \in 1..Len(df.columns) : df.columns[k] = name]

Reverse(q) == [i \in 1..Len(q) |-> q[Len(q) + 1 - i]]

---------------------------------------------------------------------------
(* pages/2_Risk_Metrics.py, the risk page *)

\* lines 98-100: at least one asset
RiskCheckSelection ==
    /\ page = "risk" /\ pc = "start"
    /\ IF Cardinality(selected_assets) < 1
       THEN /\ pc' = "stopped"
            /\ error' = "Please select at least one asset for comparison."
       ELSE /\ pc' = "fetch"
            /\ error' = error
    /\ UNCHANGED <<widgets, data_df, metrics, results, results_df,
                   corr_matrix, column>>

\* lines 22-40: what get_multiple_adj_close_data can return for the tickers:
\* DataFrame() (nothing came back, or an exception was caught), or a table
\* with rows and a column per ticker, renamed to the asset name.  yf.download
\* orders the columns by ticker symbol.
get_multiple_adj_close_data(tickers, maxrows, P) ==
    LET cols == CHOOSE q \in Perms(tickers) :
                   \A i, j \in DOMAIN q :
                      i < j => SymbolRank(TICKERS[q[i]]) < SymbolRank(TICKERS[q[j]])
    IN  {EmptyFrame} \cup FramesOver(cols, maxrows, P)

\* lines 103-111: the fetch and the empty check
RiskFetch ==
    /\ page = "risk" /\ pc = "fetch"
    /\ \E df \in get_multiple_adj_close_data(selected_assets, MaxRows, RiskPrices) :
          /\ data_df' = df
          /\ IF IsEmpty(df)
             THEN /\ pc' = "stopped"
                  /\ error' = "Could not fetch data for the selected assets."
                  /\ column' = column
             ELSE /\ pc' = "loop"
                  /\ error' = error
                  /\ column' = 1
    /\ results' = << >>
    /\ UNCHANGED <<widgets, metrics, results_df, corr_matrix>>

(* (1 + total_return/100) ** (365/days_diff) - 1) * 100 is not rational in *)
(* general.  It is kept as [kind, base, days]: "nan", "inf", or "num" for   *)
(* the finite value (base ** (365/days) - 1) * 100.                         *)
annualized_return_of(total_return, days_diff) ==
    LET base == FAdd(Num(1), FDiv(total_return, Num(100)))
    IN  IF IsNaN(base) THEN [kind |-> "nan", base |-> NaN, days |-> days_diff]
        ELSE IF IsInf(base)
             THEN (IF days_diff > 0
                   THEN [kind |-> "inf", base |-> base, days |-> days_diff]
                   ELSE [kind |-> "num", base |-> Num(0), days |-> -days_diff])
        ELSE IF base = Num(0) /\ days_diff < 0
             THEN [kind |-> "inf", base |-> base, days |-> days_diff]
        ELSE [kind |-> "num", base |-> base, days |-> days_diff]

(* f"{x:.2f}": the text "nan", "inf" or "-inf" for a value that is not     *)
(* finite, a decimal number otherwise; the digits are not modelled.        *)
Format2f(x) ==
    IF IsNaN(x) THEN "nan"
    ELSE IF x = PosInf THEN "inf"
    ELSE IF x = NegInf THEN "-inf"
    ELSE "number"

FormatSharpe(x) == IF x.nan THEN "nan" ELSE Format2f(x.sq)
FormatReturn(x) == IF x.kind = "num" THEN "number" ELSE x.kind

\* the body of the loop without line 124, the days used as they are
ResultRow_unguarded(name, series, risk_free_rate, days) ==
    LET asset_series == DropNa(series)
        sharpe == calculate_sharpe_ratio(asset_series, risk_free_rate)
        mdd    == calculate_max_drawdown(asset_series)
        total_return ==
            FMul(FSub(FDiv(asset_series[Len(asset_series)], asset_series[1]),
                      Num(1)), Num(100))
        days_diff == days
        annualized_return == annualized_return_of(total_return, days_diff)
    IN  [Asset |-> name,
         Sharpe |-> FormatSharpe(sharpe),
         AnnualizedReturn |-> FormatReturn(annualized_return),
         MDD |-> Format2f(mdd),
         Sharpe_Sort |-> sharpe,
         annualized_return |-> annualized_return,
         mdd |-> mdd,
         days_diff |-> days_diff]

\* lines 113-133: the body of the loop for one column
ResultRow(name, series, risk_free_rate, days) ==
    LET asset_series == DropNa(series)
        sharpe == calculate_sharpe_ratio(asset_series, risk_free_rate)
        mdd    == calculate_max_drawdown(asset_series)
        total_return ==
            FMul(FSub(FDiv(asset_series[Len(asset_series)], asset_series[1]),
                      Num(1)), Num(100))
        days_diff == IF days = 0 THEN 1 ELSE days
        annualized_return == annualized_return_of(total_return, days_diff)
    IN  [Asset |-> name,
         Sharpe |-> FormatSharpe(sharpe),
         AnnualizedReturn |-> FormatReturn(annualized_return),
         MDD |-> Format2f(mdd),
         Sharpe_Sort |-> sharpe,
         annualized_return |-> annualized_return,
         mdd |-> mdd,
         days_diff |-> days_diff]

\* lines 112-133: one turn of the loop over data_df.columns
RiskProcessColumn ==
    /\ page = "risk" /\ pc = "loop"
    /\ column <= Len(data_df.columns)
    /\ LET asset_series == DropNa(data_df.data[column])
       IN  results' =
             IF Len(asset_series) = 0 THEN results
             ELSE Append(results,
                         ResultRow(data_df.columns[column], data_df.data[column],
                                   FDiv(Num(risk_free_rate_input), Num(100)),
                                   end_date - start_date))
    /\ column' = column + 1
    /\ UNCHANGED <<widgets, pc, data_df, metrics, results_df, corr_matrix,
                   error>>

\* x sorts before y in an ascending sort of Sharpe_Sort values without NaN
\* when x < y; equal values may come in either order, since
\* np.argsort(kind="quicksort"), the default of sort_values, is not stable
InAscendingOrder(vals, order) ==
    \A a, b \in 1..Len(order) :
        a < b => ~SharpeLt(vals[order[b]], vals[order[a]])

\* the results of values.argsort(kind="quicksort"): the orders of the
\* positions of vals that are ascending
ArgSorts(vals) ==
    {order \in Perms(1..Len(vals)) : InAscendingOrder(vals, order)}

\* nargsort with ascending=True: the order sort_values gives when
\* ascending=False is left out
nargsort_ascending(items) ==
    LET idx == [i \in 1..Len(items) |-> i]
        non_nan_idx == SelectSeq(idx, LAMBDA i : ~items[i].nan)
        nan_idx     == SelectSeq(idx, LAMBDA i : items[i].nan)
        non_nans    == [k \in 1..Len(non_nan_idx) |-> items[non_nan_idx[k]]]
    IN  {[k \in 1..Len(order) |-> non_nan_idx[order[k]]] \o nan_idx :
            order \in ArgSorts(non_nans)}

\* pandas nargsort(items, ascending=False, na_position="last"), which
\* sort_values uses: the positions of the rows in their new order, one for
\* each result argsort can give
nargsort(items) ==
    LET idx == [i \in 1..Len(items) |-> i]
        non_nan_idx == Reverse(SelectSeq(idx, LAMBDA i : ~items[i].nan))
        nan_idx     == SelectSeq(idx, LAMBDA i : items[i].nan)
        non_nans    == [k \in 1..Len(non_nan_idx) |-> items[non_nan_idx[k]]]
    IN  {Reverse([k \in 1..Len(order) |-> non_nan_idx[order[k]]]) \o nan_idx :
            order \in ArgSorts(non_nans)}

\* line 135-136: sort_values(by='Sharpe_Sort', ascending=False), then the
\* column Sharpe_Sort is dropped
SortedTables(rows) ==
    {[k \in 1..Len(rows) |->
         [Asset |-> rows[indexer[k]].Asset,
          Sharpe |-> rows[indexer[k]].Sharpe,
          AnnualizedReturn |-> rows[indexer[k]].AnnualizedReturn,
          MDD |-> rows[indexer[k]].MDD]] :
       indexer \in nargsort([i \in 1..Len(rows) |-> rows[i].Sharpe_Sort])}

\* lines 135-139: the table; DataFrame([]) has no column Sharpe_Sort and
\* sort_values raises KeyError
RiskBuildTable ==
    /\ page = "risk" /\ pc = "loop"
    /\ column > Len(data_df.columns)
    /\ IF Len(results) = 0
       THEN /\ pc' = "crashed"
            /\ error' = "KeyError"
            /\ results_df' = results_df
       ELSE /\ pc' = "done"
            /\ error' = error
            /\ results_df' \in SortedTables(results)
    /\ UNCHANGED <<widgets, data_df, metrics, results, corr_matrix, column>>

RiskNext ==
    RiskCheckSelection \/ RiskFetch \/ RiskProcessColumn \/ RiskBuildTable

RiskInit ==
    /\ InitPage("risk")
    /\ selected_assets \in SUBSET RiskAssets
    /\ correlation_method = "pearson"
    /\ risk_free_rate_input \in RiskFreeInputs

SpecRisk == RiskInit /\ [][RiskNext]_vars

---------------------------------------------------------------------------
(* pages/1_Correlation_Analysis.py, the correlation page *)

(* A correlation coefficient is a float64 that need not be rational; like a *)
(* Sharpe ratio it is kept as [nan, sgn, sq], the sign and the square.      *)
CoefNaN == [nan |-> TRUE, sgn |-> 0, sq |-> Num(0)]
CoefOne == [nan |-> FALSE, sgn |-> 1, sq |-> Num(1)]

RECURSIVE SumTo(_, _)
SumTo(f, n) == IF n = 0 THEN 0 ELSE SumTo(f, n - 1) + f[n]

\* the linear correlation coefficient of two sequences of integers of the
\* same length: cov / sqrt(var_x * var_y), NaN when that is 0/0
Coefficient(x, y) ==
    LET n   == Len(x)
        sx  == SumTo(x, n)
        sy  == SumTo(y, n)
        sxx == n * SumTo([i \in 1..n |-> x[i] * x[i]], n) - sx * sx
        syy == n * SumTo([i \in 1..n |-> y[i] * y[i]], n) - sy * sy
        sxy == n * SumTo([i \in 1..n |-> x[i] * y[i]], n) - sx * sy
    IN  IF n = 0 \/ sxx = 0 \/ syy = 0 THEN CoefNaN
        ELSE [nan |-> FALSE, sgn |-> Sgn(sxy),
              sq |-> Norm(sxy * sxy, sxx * syy)]

\* the rows of a table, as a sequence of row numbers
RowNumbers(df) == [r \in 1..NRows(df) |-> r]

\* a column of a table at the rows rows, as integers (prices are integers)
Values(col, rows) == [k \in 1..Len(rows) |-> col[rows[k]][1]]

\* DataFrame.dropna().corr(): every pair of columns over the complete rows
DataFrameCorr_complete(df) ==
    [i \in 1..Len(df.columns) |-> [j \in 1..Len(df.columns) |->
        LET rows == SelectSeq(RowNumbers(df),
                       LAMBDA r : \A k \in 1..Len(df.columns) : ~IsNaN(df.data[k][r]))
        IN  Coefficient(Values(df.data[i], rows), Values(df.data[j], rows))]]

\* DataFrame.corr(method='pearson'): every pair of columns over the rows in
\* which both have a value (min_periods = 1)
DataFrameCorr(df) ==
    [i \in 1..Len(df.columns) |-> [j \in 1..Len(df.columns) |->
        LET rows == SelectSeq(RowNumbers(df),
                       LAMBDA r : ~IsNaN(df.data[i][r]) /\ ~IsNaN(df.data[j][r]))
        IN  Coefficient(Values(df.data[i], rows), Values(df.data[j], rows))]]

\* DataFrame.dropna(): the rows without any NaN
DropNaRows(df) ==
    LET rows == SelectSeq(RowNumbers(df),
                   LAMBDA r : \A k \in 1..Len(df.columns) : ~IsNaN(df.data[k][r]))
    IN  [columns |-> df.columns,
         data |-> [k \in 1..Len(df.columns) |->
                      [m \in 1..Len(rows) |-> df.data[k][rows[m]]]]]

\* a table with columns and no rows is empty
NoRows(df) == Len(df.columns) = 0 \/ Len(df.data[1]) = 0

\* scipy.stats.rankdata (average ranks), times two to stay in the integers;
\* a correlation coefficient does not change when a variable is doubled
RankData(x) ==
    [i \in 1..Len(x) |->
        2 * Cardinality({j \in 1..Len(x) : x[j] < x[i]})
          + Cardinality({j \in 1..Len(x) : x[j] = x[i]}) + 1]

IsConstantSeq(x) == \A i \in 1..Len(x) : x[i] = x[1]

\* scipy.stats.spearmanr(a, axis=0) of a table without NaN, with at least 2
\* columns: a scalar for one observation, for a constant first or second
\* column and for two columns, a matrix otherwise
spearmanr(a) ==
    LET n_vars == Len(a.columns)
        n_obs  == Len(a.data[1])
        col(k) == Values(a.data[k], [r \in 1..n_obs |-> r])
        rs == [i \in 1..n_vars |-> [j \in 1..n_vars |->
                  Coefficient(RankData(col(i)), RankData(col(j)))]]
    IN  IF n_obs <= 1 THEN [scalar |-> TRUE, value |-> CoefNaN]
        ELSE IF IsConstantSeq(col(1)) \/ IsConstantSeq(col(2))
             THEN [scalar |-> TRUE, value |-> CoefNaN]
        ELSE IF n_vars = 2 THEN [scalar |-> TRUE, value |-> rs[2][1]]
        ELSE [scalar |-> FALSE, value |-> rs]

\* pd.DataFrame(data, index=index, columns=columns): a scalar fills the table
DataFrameOf(data, index, columns) ==
    [shown |-> TRUE, index |-> index, columns |-> columns,
     values |-> [i \in 1..Len(index) |-> [j \in 1..Len(columns) |->
                    IF data.scalar THEN data.value ELSE data.value[i][j]]]]

\* calculate_correlation that answers pd.DataFrame(), a table without index
\* and columns, when no row is complete
calculate_correlation_unindexed(df, method) ==
    IF method = "spearman"
    THEN LET df_cleaned == DropNaRows(df)
         IN  IF NoRows(df_cleaned)
             THEN DataFrameOf([scalar |-> TRUE, value |-> CoefNaN], << >>, << >>)
             ELSE DataFrameOf(spearmanr(df_cleaned),
                              df_cleaned.columns, df_cleaned.columns)
    ELSE DataFrameOf([scalar |-> FALSE, value |-> DataFrameCorr(df)],
                     df.columns, df.columns)

\* calculate_correlation(df, method)
calculate_correlation(df, method) ==
    IF method = "spearman"
    THEN LET df_cleaned == DropNaRows(df)
         IN  IF NoRows(df_cleaned)
             THEN DataFrameOf([scalar |-> TRUE, value |-> CoefNaN],
                              df.columns, df.columns)
             ELSE DataFrameOf(spearmanr(df_cleaned),
                              df_cleaned.columns, df_cleaned.columns)
    ELSE DataFrameOf([scalar |-> FALSE, value |-> DataFrameCorr(df)],
                     df.columns, df.columns)

\* lines 93-95: at least two assets
CorrCheckSelection ==
    /\ page = "corr" /\ pc = "start"
    /\ IF Cardinality(selected_assets) < 2
       THEN /\ pc' = "stopped"
            /\ error' = "Please select at least two assets for correlation analysis."
       ELSE /\ pc' = "fetch"
            /\ error' = error
    /\ UNCHANGED <<widgets, data_df, metrics, results, results_df,
                   corr_matrix, column>>

\* the fetch without the check of what came back
CorrFetch_unchecked ==
    /\ page = "corr" /\ pc = "fetch"
    /\ \E df \in get_multiple_adj_close_data(selected_assets, MaxCorrRows, CorrPrices) :
          data_df' = df
    /\ pc' = "calculate"
    /\ UNCHANGED <<widgets, metrics, results, results_df, corr_matrix, column,
                   error>>

\* lines 98-103: the fetch and the check of what came back
CorrFetch ==
    /\ page = "corr" /\ pc = "fetch"
    /\ \E df \in get_multiple_adj_close_data(selected_assets, MaxCorrRows, CorrPrices) :
          /\ data_df' = df
          /\ IF IsEmpty(df) \/ Len(df.columns) < 2
             THEN /\ pc' = "stopped"
                  /\ error' = "Could not fetch sufficient data for the selected assets or period."
             ELSE /\ pc' = "calculate"
                  /\ error' = error
    /\ UNCHANGED <<widgets, metrics, results, results_df, corr_matrix, column>>

\* line 106: the matrix
CorrCalculate ==
    /\ page = "corr" /\ pc = "calculate"
    /\ corr_matrix' = calculate_correlation(data_df, correlation_method)
    /\ pc' = "done"
    /\ UNCHANGED <<widgets, data_df, metrics, results, results_df, column,
                   error>>

CorrNext == CorrCheckSelection \/ CorrFetch \/ CorrCalculate

CorrInit ==
    /\ InitPage("corr")
    /\ selected_assets \in SUBSET CorrAssets
    /\ correlation_method \in {"pearson", "spearman"}
    /\ risk_free_rate_input = 4

SpecCorr == CorrInit /\ [][CorrNext]_vars

---------------------------------------------------------------------------
(* The three pages together: one script is run per behaviour *)

Init == MainInit \/ RiskInit \/ CorrInit
Next == MainNext \/ RiskNext \/ CorrNext
Spec == Init /\ [][Next]_vars

---------------------------------------------------------------------------
(* Properties *)

IsPositive(series)    == \A i \in 1..Len(series) : series[i][1] > 0 /\ series[i][2] > 0
IsNonDecreasing(series) ==
    \A i, j \in 1..Len(series) : i < j => ~FLt(series[j], series[i])

\* C1: for every series of at least 2 positive prices the maximum drawdown
\* is <= 0, and it is 0 exactly when no price is lower than an earlier price.
\* (Stated on the main page; the code does not count a fall from the first
\* price.)
C1_DrawdownZeroIffNonDecreasing ==
    (page = "main" /\ pc = "done" /\ Len(data_df) >= 2 /\ IsPositive(data_df))
       => /\ FLe(metrics.max_dd, Num(0))
          /\ (metrics.max_dd = Num(0)) <=> IsNonDecreasing(data_df)

\* C2: for the prices [100, 50, 100] the maximum drawdown is -50 percent.
C2_DeclineFromFirstPrice ==
    (page = "main" /\ pc = "done" /\ data_df = <<Num(100), Num(50), Num(100)>>)
       => metrics.max_dd = Num(-50)

\* the prices of an asset as the loop of the risk page reads them
AssetSeries(name) == DropNa(Column(data_df, name))

\* C3: calculate_sharpe_ratio returns exactly 0.0 for every series of one
\* positive price repeated, of any length, a single point included.
C3_SharpeZeroForConstantSeries ==
    page = "risk" =>
       \A i \in 1..Len(results) :
          LET series == AssetSeries(results[i].Asset)
          IN  (IsPositive(series) /\ IsConstantSeq(series))
                 => results[i].Sharpe_Sort = SharpeZero

\* C4: every diagonal entry of the matrix calculate_correlation returns is
\* exactly 1.0, for both methods.
C4_DiagonalIsOne ==
    (page = "corr" /\ pc = "done")
       => \A i \in 1..Len(corr_matrix.index) : corr_matrix.values[i][i] = CoefOne

\* the table of the columns i and j of df (twice the same column when
\* i = j) at the rows r with keep(r)
SubTable(df, i, j, keep(_)) ==
    LET rows == SelectSeq([r \in 1..NRows(df) |-> r], keep)
    IN  [columns |-> <<df.columns[i], df.columns[j]>>,
         data |-> << [m \in 1..Len(rows) |-> df.data[i][rows[m]]],
                     [m \in 1..Len(rows) |-> df.data[j][rows[m]]] >>]

\* whether every asset has a value in row r
RowIsComplete(df, r) == \A k \in 1..Len(df.columns) : ~IsNaN(df.data[k][r])

\* the rows of df in which every asset has a value
CompleteCases(df) ==
    LET rows == SelectSeq([r \in 1..NRows(df) |-> r],
                          LAMBDA r : RowIsComplete(df, r))
    IN  [columns |-> df.columns,
         data |-> [k \in 1..Len(df.columns) |->
                      [m \in 1..Len(rows) |-> df.data[k][rows[m]]]]]

\* C5 as claimed: for both methods the matrix is the one of the complete
\* rows alone, so that no entry is computed from a row in which some asset
\* has no value.
C5_CompleteCaseBothMethods ==
    (page = "corr" /\ pc = "done")
       => corr_matrix = calculate_correlation(CompleteCases(data_df),
                                              correlation_method)

\* C5 as amended: with Spearman the matrix is the one of the complete rows
\* alone; with Pearson the entry of the assets i and j is the coefficient of
\* exactly the rows in which i and j both have a value, whatever the other
\* assets have there.
C5_CompleteCaseSpearmanPairwisePearson ==
    (page = "corr" /\ pc = "done")
       => IF correlation_method = "spearman"
          THEN corr_matrix = calculate_correlation(CompleteCases(data_df),
                                                   "spearman")
          ELSE \A i, j \in 1..Len(data_df.columns) :
                  corr_matrix.values[i][j] =
                     calculate_correlation(
                        SubTable(data_df, i, j,
                                 LAMBDA r : ~IsNaN(data_df.data[i][r])
                                            /\ ~IsNaN(data_df.data[j][r])),
                        "pearson").values[1][2]

\* C5 witness: a Pearson matrix of three assets in which the first two have
\* a coefficient although the only rows they share are not all complete
C5_Witness ==
    /\ page = "corr" /\ pc = "done" /\ correlation_method = "pearson"
    /\ Len(data_df.columns) = 3
    /\ \E r \in 1..NRows(data_df) :
          /\ ~RowIsComplete(data_df, r)
          /\ ~IsNaN(data_df.data[1][r]) /\ ~IsNaN(data_df.data[2][r])
    /\ ~corr_matrix.values[1][2].nan

\* the Sharpe ratio the loop computed for the asset of row k of the table
SharpeOfRow(k) ==
    LET i == CHOOSE i \in 1..Len(results) : results[i].Asset = results_df[k].Asset
    IN  results[i].Sharpe_Sort

\* C6 as claimed: the rows of the table are in descending order of Sharpe
\* ratio, and rows of equal Sharpe ratio are in ascending order of name.
C6_SortedBySharpeThenName ==
    (page = "risk" /\ pc = "done")
       => \A k, l \in 1..Len(results_df) :
             k < l => /\ ~SharpeLt(SharpeOfRow(k), SharpeOfRow(l))
                      /\ SharpeEq(SharpeOfRow(k), SharpeOfRow(l))
                            => NameRank(results_df[k].Asset)
                                  < NameRank(results_df[l].Asset)

\* C6 as amended: the table has the rows of the loop, in descending order
\* of Sharpe ratio with the rows whose Sharpe ratio is NaN last; nothing
\* orders the rows of equal Sharpe ratio by name.
C6_SortedBySharpeNaNLast ==
    (page = "risk" /\ pc = "done")
       => /\ Len(results_df) = Len(results)
          /\ \A i \in 1..Len(results) :
                \E k \in 1..Len(results_df) : results_df[k].Asset = results[i].Asset
          /\ \A k, l \in 1..Len(results_df) :
                k < l => \/ SharpeOfRow(l).nan
                         \/ /\ ~SharpeOfRow(k).nan
                            /\ ~SharpeLt(SharpeOfRow(k), SharpeOfRow(l))

\* C6 witness: a table of two rows that the sort had to swap
C6_Witness ==
    /\ page = "risk" /\ pc = "done" /\ Len(results) = 2
    /\ SharpeLt(results[1].Sharpe_Sort, results[2].Sharpe_Sort)
    /\ results_df[1].Asset = results[2].Asset

\* C7: the risk page never ends in an exception nobody handles.
C7_RiskPageNeverCrashes ==
    page = "risk" => pc # "crashed"

\* C8: no metric reaches the metric cards or the results table as inf or
\* NaN.
C8_NoNonFiniteMetric ==
    /\ metrics.shown =>
          /\ IsFinite(metrics.total_return)
          /\ RootIsFinite(metrics.annualized_volatility)
          /\ IsFinite(metrics.max_dd)
    /\ \A k \in 1..Len(results_df) :
          /\ results_df[k].Sharpe = "number"
          /\ results_df[k].AnnualizedReturn = "number"
          /\ results_df[k].MDD = "number"

\* whether no row of df has a value for every asset
NoCompleteRow(df) == \A r \in 1..NRows(df) : ~RowIsComplete(df, r)

\* C9: with Spearman and no complete row, calculate_correlation returns a
\* matrix of assets x assets, indexed by the asset names of the input on
\* both axes, in which every entry is undefined.
C9_SpearmanAllUndefined ==
    (page = "corr" /\ pc = "done" /\ correlation_method = "spearman"
        /\ NoCompleteRow(data_df))
       => /\ corr_matrix.index = data_df.columns
          /\ corr_matrix.columns = data_df.columns
          /\ Len(corr_matrix.values) = Len(data_df.columns)
          /\ \A i \in 1..Len(data_df.columns) :
                /\ Len(corr_matrix.values[i]) = Len(data_df.columns)
                /\ \A j \in 1..Len(data_df.columns) : corr_matrix.values[i][j].nan

\* C9 witness: Spearman on a table of three assets and two rows, neither
\* of them complete
C9_Witness ==
    /\ page = "corr" /\ pc = "done" /\ correlation_method = "spearman"
    /\ Len(data_df.columns) = 3 /\ NRows(data_df) = 2
    /\ NoCompleteRow(data_df)
    /\ corr_matrix.shown

\* C10 as claimed: the page never yields a matrix when fewer than 2 assets
\* remain or no row is common to the assets.
C10_StopsWithoutCommonRows ==
    (page = "corr" /\ pc = "done")
       => /\ Cardinality(selected_assets) >= 2
          /\ Len(data_df.columns) >= 2
          /\ ~NoCompleteRow(data_df)

\* C10 as amended: calculate_correlation is reached, and a matrix shown,
\* only with at least 2 assets selected and a fetched table that is not
\* empty and has at least 2 columns; otherwise the page stops with a
\* message and without a matrix.
C10_StopsWithoutAssetsOrData ==
    page = "corr" =>
       /\ pc \in {"calculate", "done"}
             => /\ Cardinality(selected_assets) >= 2
                /\ ~IsEmpty(data_df)
                /\ Len(data_df.columns) >= 2
       /\ (pc \notin {"start", "fetch"}
             /\ (Cardinality(selected_assets) < 2 \/ IsEmpty(data_df)
                    \/ Len(data_df.columns) < 2))
             => (pc = "stopped" /\ error # "" /\ ~corr_matrix.shown)

\* C10 witness: two assets selected, nothing came back, the page stopped
C10_Witness ==
    /\ page = "corr" /\ pc = "stopped"
    /\ Cardinality(selected_assets) >= 2
    /\ data_df = EmptyFrame
    /\ ~corr_matrix.shown

\* C11: the standard deviation of returns has one convention: for the same
\* prices the volatility of the main page is 100 times the volatility
\* calculate_sharpe_ratio divides by (the same denominator, n - 1 or n, in
\* both).  Stated for at least three positive prices, where both are
\* defined; compared by their squares.
C11_SameStdConvention ==
    (page = "main" /\ pc = "done" /\ Len(data_df) >= 3 /\ IsPositive(data_df))
       => RootSq(metrics.annualized_volatility)
             = FMul(Num(10000), RootSq(sharpe_annualized_volatility(data_df)))

\* a root is > 0 on float64
RootIsPositive(r) == RootIsFinite(r) /\ r.fac[1] > 0 /\ r.rad[1] > 0

\* C12 as claimed: for the prices [100, 110, 121] the returns are
\* [0.10, 0.10], the total return is 21 percent, the maximum drawdown is 0
\* percent and the annualized volatility is strictly greater than 0.
C12_GrowthScenarioVolatilityPositive ==
    (page = "main" /\ pc = "done" /\ data_df = GrowthSeries)
       => /\ DropNa(PctChange(data_df)) = <<Norm(1, 10), Norm(1, 10)>>
          /\ metrics.total_return = Num(21)
          /\ metrics.max_dd = Num(0)
          /\ RootIsPositive(metrics.annualized_volatility)

\* C12 as amended: for the prices [100, 110, 121] the returns are
\* [0.10, 0.10], the total return is 21 percent, the maximum drawdown is 0
\* percent and the annualized volatility is exactly 0, the two returns being
\* equal.
C12_GrowthScenarioVolatilityZero ==
    (page = "main" /\ pc = "done" /\ data_df = GrowthSeries)
       => /\ DropNa(PctChange(data_df)) = <<Norm(1, 10), Norm(1, 10)>>
          /\ metrics.total_return = Num(21)
          /\ metrics.max_dd = Num(0)
          /\ RootIsZero(metrics.annualized_volatility)

\* C12 witness: the metric cards of the prices [100, 110, 121]
C12_Witness ==
    /\ page = "main" /\ pc = "done" /\ data_df = GrowthSeries
    /\ metrics.shown
    /\ metrics.final_price = Num(121)

\* C14: in the annualized return of the risk page a day count of 0 is
\* replaced by 1 before it becomes the denominator of the exponent
\* 365/days, so that this division never has the divisor 0.
C14_ZeroDaysReplacedByOne ==
    page = "risk" =>
       \A i \in 1..Len(results) :
          /\ results[i].days_diff # 0
          /\ results[i].annualized_return.days # 0
          /\ end_date = start_date
                => /\ results[i].days_diff = 1
                   /\ results[i].annualized_return.days = 1
          /\ end_date # start_date
                => results[i].days_diff = end_date - start_date

\* C14 witness: a row computed with the start date equal to the end date
C14_Witness ==
    /\ page = "risk" /\ pc = "done" /\ end_date = start_date
    /\ Len(results) >= 1
    /\ results[1].days_diff = 1
    /\ results[1].AnnualizedReturn = "number"

\* C15: on every page the data is fetched and the metrics are computed only
\* when the start date is strictly before the end date; the day count that
\* annualizes the returns of the risk page is always >= 1.  (At "fetch" the
\* script is about to call the fetch, at the later positions it has data.)
C15_StartBeforeEndOnEveryPage ==
    /\ pc \in {"fetch", "metrics", "loop", "calculate", "done", "crashed"}
          => start_date < end_date
    /\ \A i \in 1..Len(results) : results[i].days_diff >= 1

===========================================================================
